---- MODULE Spec2Model ----
(***************************************************************************)
(* RoastMyWebsite: the request pipelines of the Express servers in src/.   *)
(*                                                                         *)
(* src/ holds four programs, each with its own process, its own listener   *)
(* and its own rate limiter store:                                         *)
(*   "part_000"   src/unnamed/part_000        POST /screenshot, ep         *)
(*                "screenshot_v1": no limiter, url and email validated,    *)
(*                capture, analysis, mail                                  *)
(*   "part_001a"  src/unnamed/part_001:1-297  POST /screenshot, ep         *)
(*                "screenshot_v2": limiter without allow-list, capture     *)
(*                failures classified into three messages                  *)
(*   "app"        src/app.mjs                 POST /screenshot, ep         *)
(*                "screenshot": limiter with allow-list, URL gate with DNS *)
(*   "part_001b"  src/unnamed/part_001:299-731  POST /roast, ep "roast"    *)
(*                (capture, compress, {upload || analyze}, insert), and    *)
(*                the GET routes /, /roasts, /roasts/:id,                  *)
(*                /roasts/mine/:visitorId                                  *)
(*                                                                         *)
(* Every await of a handler is a step boundary: an action is the           *)
(* synchronous code a handler runs between two awaits.  The outcomes of    *)
(* the external calls (DNS, capture, sharp, storage, OpenAI, database,     *)
(* mail) are chosen by the environment.                                    *)
(***************************************************************************)
EXTENDS Naturals, Sequences, FiniteSets, TLC

VARIABLES
  req,         \* slot -> the request the slot is serving (or Idle)
  store,       \* table "roasts": the sequence of rows, in insertion order
  blobs,       \* bucket "screenshots": the set of object paths stored
  nextId,      \* number of identifiers crypto.randomUUID() has handed out, plus 1
  hits,        \* per program, the limiter's memory store: address -> [totalHits, resetTime]
  admitted,    \* history: per program and address, the times the limiter admitted it
  now,         \* the clock, in ticks of TickMs milliseconds
  apiFlashKey  \* process.env.APIFLASH_API_KEY of part_001b is set

vars == <<req, store, blobs, nextId, hits, admitted, now, apiFlashKey>>

----------------------------------------------------------------------------
(* Bounds of the model *)

MaxIds == 2        \* identifiers crypto.randomUUID() may hand out
MaxOver == 1       \* requests of one address counted beyond max in one window
MaxTime == 4       \* last tick of the clock
MaxRows == 4       \* identifiers handed out where the feeds are read

\* The requests in flight at once are served in these slots.
Slots == {"s1", "s2"}

----------------------------------------------------------------------------
(* Programs and routes *)

Programs == {"part_000", "part_001a", "part_001b", "app"}

\* The programs that install express-rate-limit.
LimitedPrograms == {"part_001a", "part_001b", "app"}

\* The POST routes: /screenshot of part_000, of part_001:230 and of app.mjs, and
\* /roast of part_001:641.
PostEndpoints == {"screenshot_v1", "screenshot_v2", "screenshot", "roast"}

\* The POST routes that are installed with the limiter in front.
LimitedEndpoints == {"screenshot_v2", "screenshot", "roast"}

GetEndpoints == {"getRoot", "getRoast", "getRoasts", "getMine"}

\* The program a route belongs to.
programOf(ep) ==
  CASE ep = "screenshot_v1" -> "part_000"
    [] ep = "screenshot_v2" -> "part_001a"
    [] ep = "screenshot" -> "app"
    [] OTHER -> "part_001b"

----------------------------------------------------------------------------
(* Rate limiter configuration *)

\* The clock of the model ticks every five minutes.
TickMs == 5 * 60 * 1000
\* Variant of windowMs: a window of five minutes.
windowMsShort == 5 * 60 * 1000

windowMs == 15 * 60 * 1000
max == 3
windowTicks == windowMs \div TickMs

AllowedIp == "198.51.100.1"
ClientIp == "203.0.113.7"
whitelist == {AllowedIp}
Ips == {AllowedIp, ClientIp}

\* The allow-list of a program: app.mjs and part_001b read RATE_LIMIT_WHITELIST and
\* pass skip to rateLimit; part_001a passes no skip option.
whitelistOf(prog) == IF prog \in {"app", "part_001b"} THEN whitelist ELSE {}

RateLimitMessage == "Are you trying to bankrupt me? Slow down!"

\* Variant of skip: no address is skipped.
skipNobody(prog, ip) == FALSE

skip(prog, ip) == ip \in whitelistOf(prog)

NoHits == [totalHits |-> 0, resetTime |-> 0]

\* MemoryStore.increment of express-rate-limit: a fixed window per key, opened by the
\* first hit and closed windowMs later; every counted request is a hit, rejected or not.
increment(entry, t) ==
  IF entry.totalHits = 0 \/ entry.resetTime <= t
    THEN [totalHits |-> 1, resetTime |-> t + windowTicks]
    ELSE [totalHits |-> entry.totalHits + 1, resetTime |-> entry.resetTime]

\* Variant of limiter: the quota test is off by one (totalHits > max + 1).
limiterOffByOne(prog, ip, t) ==
  IF skip(prog, ip) THEN "skipped"
  ELSE IF increment(hits[prog][ip], t).totalHits > max + 1 THEN "rejected"
  ELSE "admitted"

\* The verdict of a program's middleware for a request of ip at time t: "skipped",
\* "admitted" or "rejected".
limiter(prog, ip, t) ==
  IF skip(prog, ip) THEN "skipped"
  ELSE IF increment(hits[prog][ip], t).totalHits > max THEN "rejected"
  ELSE "admitted"

----------------------------------------------------------------------------
(* Request bodies *)

\* A url value of the JSON body: its JSON type, its text, its length, and what a URL
\* parser makes of it.
Url(type, text, len, wf, scheme, host) ==
  [type |-> type, text |-> text, len |-> len, wf |-> wf, scheme |-> scheme, host |-> host]

UrlMissing == Url("undefined", "", 0, FALSE, "", "")
UrlNull    == Url("null", "null", 0, FALSE, "", "")
UrlFalse   == Url("boolean", "false", 0, FALSE, "", "")
UrlZero    == Url("number", "0", 0, FALSE, "", "")
UrlEmpty   == Url("string", "", 0, FALSE, "", "")
UrlNumber  == Url("number", "123", 0, FALSE, "", "")
UrlGarbage == Url("string", "not a url", 9, FALSE, "", "")
UrlFtp     == Url("string", "ftp://example.com", 17, TRUE, "ftp", "example.com")
UrlLoopback == Url("string", "http://127.0.0.1", 16, TRUE, "http", "127.0.0.1")
UrlPublic  == Url("string", "https://example.com", 19, TRUE, "https", "example.com")

\* Well-formed https URLs of 2049 and of 2083 characters.
UrlLong == Url("string", "https://example.com/?q=a...a (2049 characters)", 2049, TRUE, "https", "example.com")
UrlHuge == Url("string", "https://example.com/?q=a...a (2083 characters)", 2083, TRUE, "https", "example.com")

Urls ==
  {UrlMissing, UrlNull, UrlFalse, UrlZero, UrlEmpty, UrlNumber, UrlGarbage, UrlFtp,
   UrlLoopback, UrlPublic}

\* An email value of the JSON body of part_000: its JSON type, its text, its length,
\* and whether the text is an email address.
Email(type, text, len, valid) == [type |-> type, text |-> text, len |-> len, valid |-> valid]

EmailMissing == Email("undefined", "", 0, FALSE)
EmailNumber  == Email("number", "7", 0, FALSE)
EmailBad     == Email("string", "nobody", 6, FALSE)
EmailGood    == Email("string", "a@example.com", 13, TRUE)
Emails == {EmailMissing, EmailNumber, EmailBad, EmailGood}

\* JavaScript truthiness of a value of the body (the tests !url and !email): false
\* for undefined, null, false, 0, NaN and the empty string.
Truthy(u) ==
  CASE u.type \in {"undefined", "null"} -> FALSE
    [] u.type = "string" -> u.len > 0
    [] u.type = "number" -> u.text \notin {"0", "NaN"}
    [] u.type = "boolean" -> u.text = "true"
    [] OTHER -> TRUE

\* validator.isURL(str, {require_protocol, protocols: [http, https]}): "throw" for a
\* value that is not a string (assertString), else whether str is a URL with one of
\* the two schemes; validator refuses every string of 2083 characters or more.
validURL(u) ==
  IF u.type # "string" THEN "throw"
  ELSE IF u.wf /\ u.scheme \in {"http", "https"} /\ u.len < 2083 THEN "true"
  ELSE "false"

\* validURL of part_000: new URL(str) in a try block; any scheme and any length
\* pass, a value that is not a string is turned into text first.
validURLv1(u) == u.wf

\* validator.isEmail(email) of part_000: "throw" for a value that is not a string.
validEmail(e) ==
  IF e.type # "string" THEN "throw"
  ELSE IF e.valid THEN "true"
  ELSE "false"

----------------------------------------------------------------------------
(* URL gate of src/app.mjs *)

\* What dns.promises.lookup can answer, as the range ipaddr.js gives the address;
\* "fail" is a rejected lookup.
Ranges == {"unspecified", "loopback", "private", "linkLocal", "multicast", "unicast"}

\* An IP literal resolves to itself; a name resolves to whatever its DNS says.
Resolve(host) ==
  IF host = "127.0.0.1" THEN {"loopback"} ELSE Ranges \cup {"fail"}

\* addr.isPrivate(): the address objects of ipaddr.js have no such method, the call
\* raises a TypeError.
isPrivate(range) == "throw"

\* Variant of isPublicUrlCatch: the catch block fails open.
isPublicUrlCatchOpen == TRUE

\* The catch block of isPublicUrl.
isPublicUrlCatch == FALSE

isPublicUrl(lookup) ==
  IF lookup = "fail" THEN isPublicUrlCatch
  ELSE IF lookup = "unspecified" THEN FALSE
  ELSE IF lookup = "loopback" THEN FALSE
  ELSE IF isPrivate(lookup) = "throw" THEN isPublicUrlCatch
  ELSE isPrivate(lookup) = "false"

----------------------------------------------------------------------------
(* Errors and response bodies *)

\* A thrown error: its message and where the text of the message comes from
\* ("fixed": a literal of the source; "provider": text of a backend or provider).
Err(message, origin) == [message |-> message, origin |-> origin]

MsgUrlRequired == "URL is required."
MsgInvalidUrl == "Invalid URL format. A valid URL (including http:// or https://) is required."
MsgNotPublic == "The provided URL is not publicly accessible or is a private IP."
MsgValidUrlRequired == "A valid URL is required."
MsgUnexpectedLater == "An unexpected error occurred. Please try again later."
MsgUnexpected == "An unexpected error occurred."
MsgCaptureGeneric == "Failed to capture screenshot with capture-website."
MsgCaptureApi == "Failed to capture screenshot via APIFlash."
MsgNoApiKey == "APIFlash API key is not configured."
MsgAnalyze == "Failed to analyze screenshot with OpenAI Vision."
MsgAnalyzeLogs == "Failed to analyze screenshot with OpenAI Vision. See server logs for full details."
MsgUnresolvable == "This website address does not seem to exist. Please check the URL for typos."
MsgTimeout == "This website took too long to load. It might be down, very slow, or protected."
MsgBlocked == "Could not capture a screenshot. The website may be offline or blocking automated tools."
MsgBadId == "Invalid roast ID format."
MsgNotFound == "Roast not found."
MsgInternal == "Internal Server Error"
MsgFetchFailed == "Failed to fetch roasts."
MsgBadVisitor == "Invalid visitor ID format."
MsgNoneForVisitor == "No roasts found for this visitor."
MsgFetchVisitorFailed == "Failed to fetch visitor roasts."
MsgUrlRequiredV1 == "URL is required in the request body."
MsgInvalidUrlV1 == "Invalid URL format. Please provide a valid URL."
MsgEmailRequired == "Email is required in the request body."
MsgInvalidEmail == "Invalid email format. Please provide a valid email."

\* Text that only a backend or provider produces.
TxtSharp == "sharp: Input buffer contains unsupported image format"
TxtStorage == "storage: The resource already exists / bucket not found"
TxtDatabase == "postgres: connection refused"
TxtJsonParse == "SyntaxError: Unexpected token, \"I'm sorry, \"... is not valid JSON"
TxtFetchFailed == "fetch failed"
TxtTerminated == "terminated"
TxtMail == "Invalid login: 535-5.7.8 Username and Password not accepted"
ProviderTexts ==
  {TxtSharp, TxtStorage, TxtDatabase, TxtJsonParse, TxtFetchFailed, TxtTerminated, TxtMail}

\* error.message.includes(phrase) for the three phrases the /screenshot handlers test.
IncludesCapturePhrase(message) == message \in {MsgUnresolvable, MsgTimeout, MsgBlocked}

\* A response: the HTTP status, the error text of the body ("" when the body is
\* data), and the rows of the body.
Response(status, error, data) == [status |-> status, error |-> error, data |-> data]
NoResponse == Response(0, "", <<>>)

----------------------------------------------------------------------------
(* The generation service's answers *)

RequiredFields ==
  {"theVerdict", "mayhemMeter", "culpritProfile", "openingStatement", "caseFiles",
   "spiritAnimal", "rehabilitationProgram"}

\* response.choices[0].message.content: null (a refusal under a strict schema comes
\* as message.refusal with content null), or text that is JSON or not; when it is
\* JSON, the properties of the object, its two scores and the number of corrective
\* actions.
Content(isNull, json, props, theVerdict, mayhemMeter, correctiveActions) ==
  [isNull |-> isNull, json |-> json, props |-> props, theVerdict |-> theVerdict,
   mayhemMeter |-> mayhemMeter, correctiveActions |-> correctiveActions]

NoContent == Content(FALSE, FALSE, {}, 0, 0, 0)
ContentGood == Content(FALSE, TRUE, RequiredFields, 42, 7, 4)
ContentOffSchema == Content(FALSE, TRUE, RequiredFields, 0, 7, 3)
ContentRefusal == Content(FALSE, FALSE, {}, 0, 0, 0)
ContentNull == Content(TRUE, FALSE, {}, 0, 0, 0)

\* The contents openai.chat.completions.create can answer with: JSON that follows the
\* schema, JSON that does not (theVerdict 0, three corrective actions), plain text,
\* and null.
Contents == {ContentGood, ContentOffSchema, ContentRefusal, ContentNull}

\* JSON.parse(analysisResult): the object, null for null (the argument is turned into
\* the text "null"), or a SyntaxError that quotes the text.
JSONparse(content) ==
  IF content.isNull THEN "null"
  ELSE IF content.json THEN "object"
  ELSE "throw"

----------------------------------------------------------------------------
(* Identifiers, storage paths, rows *)

\* The n-th value of crypto.randomUUID().
Uuid(n) == "00000000-0000-4000-8000-00000000000" \o ToString(n)

NotAUuid == "not-a-uuid"

\* validator.isUUID(str): the 8-4-4-4-12 hexadecimal form.
isUUID(str) == str \in {Uuid(n) : n \in 0..9}

uploadPath(id) == "public/" \o id \o ".webp"

\* supabase.storage.from("screenshots").getPublicUrl(path).data.publicUrl
getPublicUrl(path) == "https://project.supabase.co/storage/v1/object/public/screenshots/" \o path

NoVisitor == ""
VisitorA == Uuid(9)

\* visitorId || null
visitorOrNull(v) == IF v = "" THEN "null" ELSE v

\* Variant of Row: the identifier is the one crypto.randomUUID() handed out last, to
\* whichever request (uniqueId shared by the requests instead of local to each).
RowSharedId(r, n) ==
  [id |-> Uuid(nextId - 1), url |-> r.url.text, roast_json |-> r.content,
   screenshot_url |-> getPublicUrl(uploadPath(Uuid(nextId - 1))),
   visitor_id |-> visitorOrNull(r.visitor), created_at |-> n]

\* The row the insert of POST /roast sends; created_at is the table's default, the
\* time of the insert, which orders the rows as they were inserted.
Row(r, n) ==
  [id |-> r.id, url |-> r.url.text, roast_json |-> r.content,
   screenshot_url |-> getPublicUrl(uploadPath(r.id)),
   visitor_id |-> visitorOrNull(r.visitor), created_at |-> n]

----------------------------------------------------------------------------
(* Requests *)

\* The stages that reach out of the process.
NetworkCalls == {"dns", "capture", "upload", "generate", "insert", "query", "mail"}

\* What an awaited call on the database resolves to: { data, error }, or a rejected
\* promise.
Result(data, error, rejected) == [data |-> data, error |-> error, rejected |-> rejected]

\* A request: pc is where its handler stands, up and gen are the two tasks of
\* Promise.all as the handler sees them, put is the upload as the bucket sees it and
\* ins the insert as the database sees it ("sent", then "stored" or "refused"), ret
\* is the answer the database has produced and that is on its way to the handler.
Idle ==
  [pc |-> "idle", ep |-> "", ip |-> "", url |-> UrlMissing, email |-> EmailMissing,
   visitor |-> NoVisitor, param |-> "", lookup |-> "", calls |-> <<>>, id |-> "",
   up |-> "none", put |-> "none", ins |-> "none", gen |-> "none", content |-> NoContent,
   ret |-> Result(<<>>, FALSE, FALSE), failed |-> "", resp |-> NoResponse]

\* The process of the program is running: no unhandled rejection has ended it.
Alive(prog) ==
  \A s \in Slots : req[s].pc = "exited" => programOf(req[s].ep) # prog

\* The process that serves the request of slot s is running.
Running(s) == Alive(programOf(req[s].ep))

Respond(r, response) == [r EXCEPT !.pc = "done", !.resp = response]

Call(r, stage) == [r EXCEPT !.calls = Append(@, stage)]

Set(S) == {S[i] : i \in DOMAIN S}

----------------------------------------------------------------------------
(* Initial state *)

Init ==
  /\ req = [s \in Slots |-> Idle]
  /\ store = <<>>
  /\ blobs = {}
  /\ nextId = 1
  /\ hits = [prog \in LimitedPrograms |-> [ip \in Ips |-> NoHits]]
  /\ admitted = [prog \in LimitedPrograms |-> [ip \in Ips |-> <<>>]]
  /\ now = 0
  /\ apiFlashKey \in BOOLEAN

----------------------------------------------------------------------------
(* Arrival of a request: the middleware in front of the route *)

\* Requests of the slots that will still ask crypto.randomUUID() for an identifier.
AwaitingId == {s \in Slots : req[s].ep = "roast" /\ req[s].pc \in {"handler", "capture", "compress"}}

\* Variant of Arrive: the limiter answers 429 and calls the handler all the same.
ArriveThenHandle(s, endpoints, ips, urls, visitors, ids) ==
  /\ req[s].pc = "idle"
  /\ \E ep \in endpoints, ip \in ips, url \in urls, visitor \in visitors :
       LET r == [Idle EXCEPT !.ep = ep, !.ip = ip, !.url = url, !.visitor = visitor]
           prog == programOf(ep)
           verdict == limiter(prog, ip, now)
       IN  /\ Alive(prog)
           /\ ep = "roast" => (nextId - 1) + Cardinality(AwaitingId) < ids
           /\ ep # "roast" => visitor = NoVisitor
           /\ verdict # "skipped" => increment(hits[prog][ip], now).totalHits <= max + MaxOver
           /\ hits' = IF verdict = "skipped" THEN hits
                      ELSE [hits EXCEPT ![prog][ip] = increment(@, now)]
           /\ admitted' = IF verdict = "admitted"
                            THEN [admitted EXCEPT ![prog][ip] = Append(@, now)]
                            ELSE admitted
           /\ req' = [req EXCEPT ![s] =
                        IF verdict = "rejected"
                          THEN [Call(r, "limiter") EXCEPT
                                  !.pc = "handler", !.resp = Response(429, RateLimitMessage, <<>>)]
                        ELSE IF verdict = "admitted"
                          THEN [Call(r, "limiter") EXCEPT !.pc = "handler"]
                        ELSE [r EXCEPT !.pc = "handler"]]
  /\ UNCHANGED <<store, blobs, nextId, now, apiFlashKey>>

\* A request arrives at a route with the limiter in front.  The limiter of the
\* route's program runs first; it answers 429 itself when the address is over its
\* quota and calls the handler otherwise.  No more than ids identifiers are asked of
\* crypto.randomUUID() in a run.
Arrive(s, endpoints, ips, urls, visitors, ids) ==
  /\ req[s].pc = "idle"
  /\ \E ep \in endpoints, ip \in ips, url \in urls, visitor \in visitors :
       LET r == [Idle EXCEPT !.ep = ep, !.ip = ip, !.url = url, !.visitor = visitor]
           prog == programOf(ep)
           verdict == limiter(prog, ip, now)
       IN  /\ Alive(prog)
           /\ ep = "roast" => (nextId - 1) + Cardinality(AwaitingId) < ids
           /\ ep # "roast" => visitor = NoVisitor
           /\ verdict # "skipped" => increment(hits[prog][ip], now).totalHits <= max + MaxOver
           /\ hits' = IF verdict = "skipped" THEN hits
                      ELSE [hits EXCEPT ![prog][ip] = increment(@, now)]
           /\ admitted' = IF verdict = "admitted"
                            THEN [admitted EXCEPT ![prog][ip] = Append(@, now)]
                            ELSE admitted
           /\ req' = [req EXCEPT ![s] =
                        IF verdict = "rejected"
                          THEN Respond(Call(r, "limiter"), Response(429, RateLimitMessage, <<>>))
                        ELSE IF verdict = "admitted"
                          THEN [Call(r, "limiter") EXCEPT !.pc = "handler"]
                        ELSE [r EXCEPT !.pc = "handler"]]
  /\ UNCHANGED <<store, blobs, nextId, now, apiFlashKey>>

Receive(s, endpoints, ips, urls, visitors) ==
  Arrive(s, endpoints, ips, urls, visitors, MaxIds)

\* POST /screenshot of part_000 arrives: the route has no middleware in front.
ReceiveMail(s, ips, urls, emails) ==
  /\ req[s].pc = "idle"
  /\ Alive("part_000")
  /\ \E ip \in ips, url \in urls, email \in emails :
       req' = [req EXCEPT ![s] =
                 [Idle EXCEPT !.ep = "screenshot_v1", !.ip = ip, !.url = url,
                              !.email = email, !.pc = "handler"]]
  /\ UNCHANGED <<store, blobs, nextId, hits, admitted, now, apiFlashKey>>

\* Variant of ReceiveGet: the route GET /roasts/:id is installed behind the limiter.
ReceiveGetLimited(s, ips) ==
  /\ req[s].pc = "idle"
  /\ Alive("part_001b")
  /\ \E ip \in ips, param \in {NotAUuid} \cup {Uuid(n) : n \in 1..MaxIds} :
       LET r == [Idle EXCEPT !.ep = "getRoast", !.ip = ip, !.param = param]
           verdict == limiter("part_001b", ip, now)
       IN  /\ verdict # "skipped" =>
                increment(hits["part_001b"][ip], now).totalHits <= max + MaxOver
           /\ hits' = IF verdict = "skipped" THEN hits
                      ELSE [hits EXCEPT !["part_001b"][ip] = increment(@, now)]
           /\ admitted' = IF verdict = "admitted"
                            THEN [admitted EXCEPT !["part_001b"][ip] = Append(@, now)]
                            ELSE admitted
           /\ req' = [req EXCEPT ![s] =
                        IF verdict = "rejected"
                          THEN Respond(r, Response(429, RateLimitMessage, <<>>))
                        ELSE [r EXCEPT !.pc = "handler"]]
  /\ UNCHANGED <<store, blobs, nextId, now, apiFlashKey>>

\* GET /roasts/:id arrives: the GET routes have no limiter.
ReceiveGet(s, ips) ==
  /\ req[s].pc = "idle"
  /\ Alive("part_001b")
  /\ \E ip \in ips, param \in {NotAUuid} \cup {Uuid(n) : n \in 1..MaxIds} :
       req' = [req EXCEPT ![s] =
                 [Idle EXCEPT !.ep = "getRoast", !.ip = ip, !.param = param, !.pc = "handler"]]
  /\ UNCHANGED <<store, blobs, nextId, hits, admitted, now, apiFlashKey>>

\* GET / arrives.
ReceiveGetRoot(s, ips) ==
  /\ req[s].pc = "idle"
  /\ Alive("part_001b")
  /\ \E ip \in ips :
       req' = [req EXCEPT ![s] = [Idle EXCEPT !.ep = "getRoot", !.ip = ip, !.pc = "handler"]]
  /\ UNCHANGED <<store, blobs, nextId, hits, admitted, now, apiFlashKey>>

\* GET /roasts arrives.
ReceiveGetRoasts(s, ips) ==
  /\ req[s].pc = "idle"
  /\ Alive("part_001b")
  /\ \E ip \in ips :
       req' = [req EXCEPT ![s] = [Idle EXCEPT !.ep = "getRoasts", !.ip = ip, !.pc = "handler"]]
  /\ UNCHANGED <<store, blobs, nextId, hits, admitted, now, apiFlashKey>>

\* GET /roasts/mine/:visitorId arrives.
ReceiveGetMine(s, ips, params) ==
  /\ req[s].pc = "idle"
  /\ Alive("part_001b")
  /\ \E ip \in ips, param \in params :
       req' = [req EXCEPT ![s] =
                 [Idle EXCEPT !.ep = "getMine", !.ip = ip, !.param = param, !.pc = "handler"]]
  /\ UNCHANGED <<store, blobs, nextId, hits, admitted, now, apiFlashKey>>

----------------------------------------------------------------------------
(* The handlers, up to their first await *)

\* The catch block of POST /roast.
roastCatch(err) == Response(500, MsgUnexpected, <<>>)

\* The catch block of POST /screenshot of part_001 and of app.mjs.
screenshotCatch(err) ==
  IF IncludesCapturePhrase(err.message)
    THEN Response(400, err.message, <<>>)
    ELSE Response(500, MsgUnexpectedLater, <<>>)

\* The catch block of POST /screenshot of part_000: res.status(500).json({error:
\* error.message}).
screenshotV1Catch(err) == Response(500, err.message, <<>>)

\* POST /roast: if (!url || !validURL(url)) 400; else getScreenshotFromAPI(url),
\* which throws before any fetch when the key is not configured.  validURL runs
\* before the try block: when it throws, the handler writes no response and its
\* promise rejects (UnhandledRejection).
roastValidate(r) ==
  IF ~Truthy(r.url) THEN Respond(r, Response(400, MsgValidUrlRequired, <<>>))
  ELSE IF validURL(r.url) = "throw" THEN [r EXCEPT !.pc = "unhandled", !.failed = "validate"]
  ELSE IF validURL(r.url) = "false" THEN Respond(r, Response(400, MsgValidUrlRequired, <<>>))
  ELSE IF ~apiFlashKey
    THEN Respond([r EXCEPT !.failed = "config"], roastCatch(Err(MsgNoApiKey, "fixed")))
  ELSE [Call(r, "capture") EXCEPT !.pc = "capture"]

HandleRoast(s) ==
  /\ Running(s)
  /\ req[s].pc = "handler"
  /\ req[s].ep = "roast"
  /\ req' = [req EXCEPT ![s] = roastValidate(@)]
  /\ UNCHANGED <<store, blobs, nextId, hits, admitted, now, apiFlashKey>>

\* POST /screenshot of part_001 and of app.mjs: if (!url || typeof url !== "string"
\* || url.length > 2048 || !validURL(url)) 400; then the URL gate (app.mjs) or the
\* capture (part_001).
screenshotValidate(r) ==
  IF ~Truthy(r.url) THEN Respond(r, Response(400, MsgUrlRequired, <<>>))
  ELSE IF r.url.type # "string" \/ r.url.len > 2048 \/ validURL(r.url) # "true"
    THEN Respond(r, Response(400, MsgInvalidUrl, <<>>))
  ELSE IF r.ep = "screenshot" THEN [Call(r, "dns") EXCEPT !.pc = "dns"]
  ELSE [Call(r, "capture") EXCEPT !.pc = "capture"]

HandleScreenshot(s) ==
  /\ Running(s)
  /\ req[s].pc = "handler"
  /\ req[s].ep \in {"screenshot", "screenshot_v2"}
  /\ req' = [req EXCEPT ![s] = screenshotValidate(@)]
  /\ UNCHANGED <<store, blobs, nextId, hits, admitted, now, apiFlashKey>>

\* POST /screenshot of part_000: if (!url || !validURL(url)) 400; if (!email ||
\* !validEmail(email)) 400; else the capture.  Both tests run before the try block:
\* when validEmail throws, the handler writes no response and its promise rejects.
mailValidate(r) ==
  IF ~Truthy(r.url) THEN Respond(r, Response(400, MsgUrlRequiredV1, <<>>))
  ELSE IF ~validURLv1(r.url) THEN Respond(r, Response(400, MsgInvalidUrlV1, <<>>))
  ELSE IF ~Truthy(r.email) THEN Respond(r, Response(400, MsgEmailRequired, <<>>))
  ELSE IF validEmail(r.email) = "throw" THEN [r EXCEPT !.pc = "unhandled", !.failed = "validate"]
  ELSE IF validEmail(r.email) = "false" THEN Respond(r, Response(400, MsgInvalidEmail, <<>>))
  ELSE [Call(r, "capture") EXCEPT !.pc = "capture"]

HandleMail(s) ==
  /\ Running(s)
  /\ req[s].pc = "handler"
  /\ req[s].ep = "screenshot_v1"
  /\ req' = [req EXCEPT ![s] = mailValidate(@)]
  /\ UNCHANGED <<store, blobs, nextId, hits, admitted, now, apiFlashKey>>

\* GET /: res.status(200).json({status: "ok"}).
HandleGetRoot(s) ==
  /\ Running(s)
  /\ req[s].pc = "handler"
  /\ req[s].ep = "getRoot"
  /\ req' = [req EXCEPT ![s] = Respond(@, Response(200, "", <<>>))]
  /\ UNCHANGED <<store, blobs, nextId, hits, admitted, now, apiFlashKey>>

\* Variant of getRoastValidate: the id is not validated before the query.
getRoastValidateNoCheck(r) == [Call(r, "query") EXCEPT !.pc = "query"]

\* GET /roasts/:id: if (!validator.isUUID(id)) 400; else the query.
getRoastValidate(r) ==
  IF ~isUUID(r.param) THEN Respond(r, Response(400, MsgBadId, <<>>))
  ELSE [Call(r, "query") EXCEPT !.pc = "query"]

HandleGetRoast(s) ==
  /\ Running(s)
  /\ req[s].pc = "handler"
  /\ req[s].ep = "getRoast"
  /\ req' = [req EXCEPT ![s] = getRoastValidate(@)]
  /\ UNCHANGED <<store, blobs, nextId, hits, admitted, now, apiFlashKey>>

\* GET /roasts: the query is sent at once.
HandleGetRoasts(s) ==
  /\ Running(s)
  /\ req[s].pc = "handler"
  /\ req[s].ep = "getRoasts"
  /\ req' = [req EXCEPT ![s] = [Call(@, "query") EXCEPT !.pc = "queryLatest"]]
  /\ UNCHANGED <<store, blobs, nextId, hits, admitted, now, apiFlashKey>>

\* GET /roasts/mine/:visitorId: if (!visitorId || !validator.isUUID(visitorId)) 400;
\* else the query.
getMineValidate(r) ==
  IF r.param = "" \/ ~isUUID(r.param) THEN Respond(r, Response(400, MsgBadVisitor, <<>>))
  ELSE [Call(r, "query") EXCEPT !.pc = "queryMine"]

HandleGetMine(s) ==
  /\ Running(s)
  /\ req[s].pc = "handler"
  /\ req[s].ep = "getMine"
  /\ req' = [req EXCEPT ![s] = getMineValidate(@)]
  /\ UNCHANGED <<store, blobs, nextId, hits, admitted, now, apiFlashKey>>

----------------------------------------------------------------------------
(* The awaited calls return *)

\* Variant of gate: the verdict of isPublicUrl is not looked at.
gateIgnored(r, lookup) == [Call(r, "capture") EXCEPT !.pc = "capture", !.lookup = lookup]

\* await isPublicUrl(url) of src/app.mjs returns.
gate(r, lookup) ==
  IF isPublicUrl(lookup)
    THEN [Call(r, "capture") EXCEPT !.pc = "capture", !.lookup = lookup]
    ELSE Respond([r EXCEPT !.lookup = lookup], Response(400, MsgNotPublic, <<>>))

DnsDone(s) ==
  /\ Running(s)
  /\ req[s].pc = "dns"
  /\ \E lookup \in Resolve(req[s].url.host) :
       req' = [req EXCEPT ![s] = gate(@, lookup)]
  /\ UNCHANGED <<store, blobs, nextId, hits, admitted, now, apiFlashKey>>

\* A backend error whose text holds both phrases getScreenshot looks for.
TxtBothPhrases == "Navigation timeout of 30000 ms exceeded (net::ERR_NAME_NOT_RESOLVED)"

\* How a capture with capture-website can end: with the image, or with a backend
\* error with one of these texts.
CaptureOutcomes ==
  {"ok", "ERR_NAME_NOT_RESOLVED", "Navigation timeout", TxtBothPhrases, "other"}

\* How getScreenshotFromAPI can end once the key is there: with the image, with an
\* answer that is not ok, with a rejected fetch, or with a rejected read of the body.
ApiOutcomes == {"ok", "notOk", TxtFetchFailed, TxtTerminated}

\* error.message.includes(phrase) for the texts above.
includes(message, phrase) ==
  \/ message = phrase
  \/ message = TxtBothPhrases /\ phrase \in {"ERR_NAME_NOT_RESOLVED", "Navigation timeout"}

\* Variant of getScreenshotV2Error: the backend's error is thrown on as it is.
getScreenshotV2ErrorRaw(outcome) == Err(outcome, "provider")

\* getScreenshot of src/unnamed/part_001:197-227: the error it throws.
getScreenshotV2Error(outcome) ==
  IF includes(outcome, "ERR_NAME_NOT_RESOLVED") THEN Err(MsgUnresolvable, "fixed")
  ELSE IF includes(outcome, "Navigation timeout") THEN Err(MsgTimeout, "fixed")
  ELSE Err(MsgBlocked, "fixed")

\* getScreenshot of src/app.mjs:236-252 and of src/unnamed/part_000:50-61: the error
\* it throws.
getScreenshotError(outcome) == Err(MsgCaptureGeneric, "fixed")

\* getScreenshotFromAPI of src/unnamed/part_001:535-564, after the test of the key:
\* the error it throws.  An answer that is not ok is turned into a fixed message; a
\* rejected fetch and a rejected read of the body pass through as they are.
getScreenshotFromAPIError(outcome) ==
  IF outcome = "notOk" THEN Err(MsgCaptureApi, "fixed")
  ELSE Err(outcome, "provider")

\* The capture returns to the handler that awaited it.
captured(r, outcome) ==
  IF r.ep = "roast" THEN
    IF outcome = "ok" THEN [Call(r, "compress") EXCEPT !.pc = "compress"]
    ELSE Respond([r EXCEPT !.failed = outcome], roastCatch(getScreenshotFromAPIError(outcome)))
  ELSE
    IF outcome = "ok" THEN [Call(r, "generate") EXCEPT !.pc = "analyze", !.gen = "pending"]
    ELSE IF r.ep = "screenshot_v2"
      THEN Respond([r EXCEPT !.failed = outcome], screenshotCatch(getScreenshotV2Error(outcome)))
    ELSE IF r.ep = "screenshot_v1"
      THEN Respond([r EXCEPT !.failed = outcome], screenshotV1Catch(getScreenshotError(outcome)))
    ELSE Respond([r EXCEPT !.failed = outcome], screenshotCatch(getScreenshotError(outcome)))

CaptureDone(s) ==
  /\ Running(s)
  /\ req[s].pc = "capture"
  /\ \E outcome \in (IF req[s].ep = "roast" THEN ApiOutcomes ELSE CaptureOutcomes) :
       req' = [req EXCEPT ![s] = captured(@, outcome)]
  /\ UNCHANGED <<store, blobs, nextId, hits, admitted, now, apiFlashKey>>

\* sharp(...).toBuffer() returns; then the identifier is drawn and the two tasks of
\* Promise.all are started.
compressed(r, ok, id) ==
  IF ok
    THEN [Call(Call(Call(r, "uuid"), "upload"), "generate")
            EXCEPT !.pc = "join", !.id = id, !.up = "pending", !.put = "sent",
                   !.gen = "pending"]
    ELSE Respond([r EXCEPT !.failed = "compress"], roastCatch(Err(TxtSharp, "provider")))

CompressDone(s) ==
  /\ Running(s)
  /\ req[s].pc = "compress"
  /\ \E ok \in BOOLEAN :
       /\ req' = [req EXCEPT ![s] = compressed(@, ok, Uuid(nextId))]
       /\ nextId' = IF ok THEN nextId + 1 ELSE nextId
  /\ UNCHANGED <<store, blobs, hits, admitted, now, apiFlashKey>>

\* Variant of processResults: the upload's error is not looked at.
processResultsIgnoreUploadError(r) ==
  IF JSONparse(r.content) = "throw"
    THEN Respond([r EXCEPT !.failed = "parse"], roastCatch(Err(TxtJsonParse, "provider")))
  ELSE [Call(r, "insert") EXCEPT !.pc = "insert", !.ins = "sent"]

\* Steps 4 and 5 of POST /roast, run when Promise.all fulfils: the upload's error is
\* thrown, the analysis is parsed (null parses to null), the insert is sent.
processResults(r) ==
  IF r.up = "error"
    THEN Respond([r EXCEPT !.failed = "upload"], roastCatch(Err(TxtStorage, "provider")))
  ELSE IF JSONparse(r.content) = "throw"
    THEN Respond([r EXCEPT !.failed = "parse"], roastCatch(Err(TxtJsonParse, "provider")))
  ELSE [Call(r, "insert") EXCEPT !.pc = "insert", !.ins = "sent"]

\* Promise.all([upload, analyzeImage]): fulfilled once both tasks are; rejected as
\* soon as one task rejects.  The upload resolves to {data, error}, or rejects when
\* the client itself throws; analyzeImage rejects when the OpenAI call fails.
promiseAll(r) ==
  IF r.pc # "join" THEN r
  ELSE IF r.up = "rejected"
    THEN Respond([r EXCEPT !.failed = "upload"], roastCatch(Err(TxtFetchFailed, "provider")))
  ELSE IF r.gen = "fail"
    THEN Respond([r EXCEPT !.failed = "generate"], roastCatch(Err(MsgAnalyzeLogs, "fixed")))
  ELSE IF r.up # "pending" /\ r.gen # "pending" THEN processResults(r)
  ELSE r

\* The bucket handles an upload that was sent: it stores the object, which is in the
\* bucket from here on, or it refuses the upload.  It does so whenever the upload
\* reaches it: while the handler awaits the answer, after the handler was given an
\* error in place of the answer and has responded, or after the process that sent
\* the upload has ended; nothing in the handler withdraws an upload.
UploadCommit(s) ==
  /\ req[s].put = "sent"
  /\ \/ /\ req' = [req EXCEPT ![s].put = "stored"]
        /\ blobs' = blobs \cup {uploadPath(req[s].id)}
     \/ /\ req' = [req EXCEPT ![s].put = "refused"]
        /\ blobs' = blobs
  /\ UNCHANGED <<store, nextId, hits, admitted, now, apiFlashKey>>

\* The awaited upload returns to the handler: with { data } once the bucket has
\* stored the object, or with { error } or a rejected promise, whether the bucket
\* refused the upload, the answer was lost on its way (the object stays), or the
\* upload has not reached the bucket yet (the object may still be stored later).
UploadDone(s) ==
  /\ Running(s)
  /\ req[s].up = "pending"
  /\ \E outcome \in {"ok", "error", "rejected"} :
       /\ outcome = "ok" => req[s].put = "stored"
       /\ req' = [req EXCEPT ![s] = promiseAll([@ EXCEPT !.up = outcome])]
  /\ UNCHANGED <<store, blobs, nextId, hits, admitted, now, apiFlashKey>>

\* The analysis of POST /screenshot of part_001 and of app.mjs returns: JSON.parse,
\* then the response (analysis: null when the content is null).
analyzed(r) ==
  IF r.gen = "fail"
    THEN Respond([r EXCEPT !.failed = "generate"], screenshotCatch(Err(MsgAnalyze, "fixed")))
  ELSE IF JSONparse(r.content) = "throw"
    THEN Respond([r EXCEPT !.failed = "parse"], screenshotCatch(Err(TxtJsonParse, "provider")))
  ELSE Respond(r, Response(200, "", <<r.content>>))

\* The analysis of POST /screenshot of part_000 returns: the content is not parsed,
\* the mail is sent.
analyzedV1(r) ==
  IF r.gen = "fail"
    THEN Respond([r EXCEPT !.failed = "generate"], screenshotV1Catch(Err(MsgAnalyze, "fixed")))
  ELSE [Call(r, "mail") EXCEPT !.pc = "mail"]

\* The continuation of the handler that awaits the analysis.
afterAnalysis(r) ==
  CASE r.ep = "roast" -> promiseAll(r)
    [] r.ep = "screenshot_v1" -> analyzedV1(r)
    [] OTHER -> analyzed(r)

\* analyzeImage returns: with the content the model produced, or with an error.
AnalyzeDone(s, contents) ==
  /\ Running(s)
  /\ req[s].gen = "pending"
  /\ \/ \E content \in contents :
          req' = [req EXCEPT ![s] = afterAnalysis([@ EXCEPT !.gen = "ok", !.content = content])]
     \/ req' = [req EXCEPT ![s] = afterAnalysis([@ EXCEPT !.gen = "fail"])]
  /\ UNCHANGED <<store, blobs, nextId, hits, admitted, now, apiFlashKey>>

\* transporter.sendMail of part_000 returns: sent, or rejected with nodemailer's
\* error, whose message the catch block sends to the client.
MailDone(s) ==
  /\ Running(s)
  /\ req[s].pc = "mail"
  /\ \/ req' = [req EXCEPT ![s] = Respond(@, Response(200, "", <<@.content>>))]
     \/ req' = [req EXCEPT ![s] =
                  Respond([@ EXCEPT !.failed = "mail"], screenshotV1Catch(Err(TxtMail, "provider")))]
  /\ UNCHANGED <<store, blobs, nextId, hits, admitted, now, apiFlashKey>>

\* Variant of InsertCommit: the row takes the place of the rows of the table.
InsertCommitReplacing(s) ==
  /\ req[s].ins = "sent"
  /\ \/ LET row == Row(req[s], Len(store) + 1)
        IN  /\ store' = <<row>>
            /\ req' = [req EXCEPT ![s] =
                         [@ EXCEPT !.ins = "stored", !.ret = Result(<<row>>, FALSE, FALSE)]]
     \/ /\ store' = store
        /\ req' = [req EXCEPT ![s].ins = "refused"]
  /\ UNCHANGED <<blobs, nextId, hits, admitted, now, apiFlashKey>>

\* The database handles the insert of .insert(row).select().single() that was sent:
\* it writes the row, which is in the table from here on, or it refuses the insert.
\* It does so whenever the insert reaches it: while the handler awaits the answer,
\* after the handler was given an error in place of the answer and has responded
\* 500, or after the process that sent the insert has ended; nothing in the handler
\* withdraws an insert.
InsertCommit(s) ==
  /\ req[s].ins = "sent"
  /\ \/ LET row == Row(req[s], Len(store) + 1)
        IN  /\ store' = Append(store, row)
            /\ req' = [req EXCEPT ![s] =
                         [@ EXCEPT !.ins = "stored", !.ret = Result(<<row>>, FALSE, FALSE)]]
     \/ /\ store' = store
        /\ req' = [req EXCEPT ![s].ins = "refused"]
  /\ UNCHANGED <<blobs, nextId, hits, admitted, now, apiFlashKey>>

\* Variant of InsertDone: an insert that returned an error is sent a second time.
InsertDoneRetrying(s) ==
  /\ Running(s)
  /\ req[s].pc = "insert"
  /\ \/ /\ req[s].ins = "stored"
        /\ req' = [req EXCEPT ![s] = Respond(@, Response(200, "", @.ret.data))]
     \/ req' = [req EXCEPT ![s] =
                  IF Len(SelectSeq(@.calls, LAMBDA c : c = "insert")) < 2
                    THEN Call(@, "insert")
                    ELSE Respond([@ EXCEPT !.failed = "insert"],
                                 roastCatch(Err(TxtDatabase, "provider")))]
  /\ UNCHANGED <<store, blobs, nextId, hits, admitted, now, apiFlashKey>>

\* The awaited insert returns to the handler: with the row once the database has
\* written it (200), or with an error, which line 719 throws and the catch block
\* answers 500: the database refused the insert, the answer was lost on its way (the
\* row stays), or the insert has not reached the database yet (the row may still be
\* written later).
InsertDone(s) ==
  /\ Running(s)
  /\ req[s].pc = "insert"
  /\ \/ /\ req[s].ins = "stored"
        /\ req' = [req EXCEPT ![s] = Respond(@, Response(200, "", @.ret.data))]
     \/ req' = [req EXCEPT ![s] =
                  Respond([@ EXCEPT !.failed = "insert"],
                          roastCatch(Err(IF req[s].ins = "refused" THEN TxtDatabase
                                         ELSE TxtFetchFailed, "provider")))]
  /\ UNCHANGED <<store, blobs, nextId, hits, admitted, now, apiFlashKey>>

\* What a query resolves to when it did not reach the database or its answer was
\* lost, and a query whose promise rejects.
QueryError == Result(<<>>, TRUE, FALSE)
QueryRejected == Result(<<>>, TRUE, TRUE)

\* .from("roasts").select("*").eq("id", id).single(): the row, or an error when the
\* number of rows is not one.
selectSingle(id) ==
  LET rows == SelectSeq(store, LAMBDA row : row.id = id)
  IN  IF Len(rows) = 1 THEN Result(rows, FALSE, FALSE)
      ELSE Result(<<>>, TRUE, FALSE)

\* GET /roasts/:id: 404 if (error || !data), 200 with the row; the catch block
\* answers 500 when the awaited query throws.
getRoastRespond(r, result) ==
  IF result.rejected
    THEN Respond([r EXCEPT !.failed = "rejected"], Response(500, MsgUnexpected, <<>>))
  ELSE IF result.error THEN Respond(r, Response(404, MsgNotFound, <<>>))
  ELSE Respond(r, Response(200, "", result.data))

\* The awaited query of GET /roasts/:id returns to the handler: with the answer the
\* database produced when it ran the select, or, for a query that did not reach the
\* database or whose answer was lost, with an error (answered 404 as well) or
\* rejected.
QueryDone(s) ==
  /\ Running(s)
  /\ \/ /\ req[s].pc = "queried"
        /\ req' = [req EXCEPT ![s] = getRoastRespond(@, @.ret)]
     \/ /\ req[s].pc \in {"query", "queried"}
        /\ \E result \in {QueryError, QueryRejected} :
             req' = [req EXCEPT ![s] = getRoastRespond([@ EXCEPT !.failed = "query"], result)]
  /\ UNCHANGED <<store, blobs, nextId, hits, admitted, now, apiFlashKey>>

\* .order("created_at", { ascending: false }) of a set of rows.
RECURSIVE orderDescending(_)
orderDescending(rows) ==
  IF rows = {} THEN <<>>
  ELSE LET newest == CHOOSE r \in rows : \A q \in rows : q.created_at <= r.created_at
       IN  <<newest>> \o orderDescending(rows \ {newest})

\* Variant of limit: every row is returned.
limitNone(rows, n) == rows

\* .limit(n) of a sequence of rows.
limit(rows, n) == IF Len(rows) <= n THEN rows ELSE SubSeq(rows, 1, n)

\* .from("roasts").select("*").order("created_at", { ascending: false }).limit(3)
selectLatest == Result(limit(orderDescending(Set(store)), 3), FALSE, FALSE)

\* GET /roasts: if (error) throw error, which the catch block answers with 500, as
\* it does when the awaited query throws.
getRoastsRespond(r, result) ==
  IF result.error
    THEN Respond([r EXCEPT !.failed = "query"], Response(500, MsgFetchFailed, <<>>))
  ELSE Respond(r, Response(200, "", result.data))

\* The awaited query of GET /roasts returns to the handler.
LatestDone(s) ==
  /\ Running(s)
  /\ \/ /\ req[s].pc = "queriedLatest"
        /\ req' = [req EXCEPT ![s] = getRoastsRespond(@, @.ret)]
     \/ /\ req[s].pc \in {"queryLatest", "queriedLatest"}
        /\ \E result \in {QueryError, QueryRejected} :
             req' = [req EXCEPT ![s] = getRoastsRespond(@, result)]
  /\ UNCHANGED <<store, blobs, nextId, hits, admitted, now, apiFlashKey>>

\* .from("roasts").select("*").eq("visitor_id", visitorId)
\*   .order("created_at", { ascending: false })
selectMine(visitorId) ==
  Result(orderDescending({row \in Set(store) : row.visitor_id = visitorId}), FALSE, FALSE)

\* GET /roasts/mine/:visitorId: 404 if (error), else 200 with the rows, few or none;
\* the catch block answers 500 when the awaited query throws.
getMineRespond(r, result) ==
  IF result.rejected
    THEN Respond([r EXCEPT !.failed = "rejected"], Response(500, MsgFetchVisitorFailed, <<>>))
  ELSE IF result.error
    THEN Respond([r EXCEPT !.failed = "query"], Response(404, MsgNoneForVisitor, <<>>))
  ELSE Respond(r, Response(200, "", result.data))

\* The awaited query of GET /roasts/mine/:visitorId returns to the handler.
MineDone(s) ==
  /\ Running(s)
  /\ \/ /\ req[s].pc = "queriedMine"
        /\ req' = [req EXCEPT ![s] = getMineRespond(@, @.ret)]
     \/ /\ req[s].pc \in {"queryMine", "queriedMine"}
        /\ \E result \in {QueryError, QueryRejected} :
             req' = [req EXCEPT ![s] = getMineRespond(@, result)]
  /\ UNCHANGED <<store, blobs, nextId, hits, admitted, now, apiFlashKey>>

\* The database runs the select of a GET route: the answer is what the table holds
\* at this moment, and it is on its way to the handler while the table goes on
\* changing.
SelectRun(s) ==
  /\ \/ /\ req[s].pc = "query"
        /\ req' = [req EXCEPT ![s] =
                     [@ EXCEPT !.pc = "queried", !.ret = selectSingle(req[s].param)]]
     \/ /\ req[s].pc = "queryLatest"
        /\ req' = [req EXCEPT ![s] = [@ EXCEPT !.pc = "queriedLatest", !.ret = selectLatest]]
     \/ /\ req[s].pc = "queryMine"
        /\ req' = [req EXCEPT ![s] =
                     [@ EXCEPT !.pc = "queriedMine", !.ret = selectMine(req[s].param)]]
  /\ UNCHANGED <<store, blobs, nextId, hits, admitted, now, apiFlashKey>>

\* The promise of an async handler was rejected outside its try block.  Nothing in
\* the source handles it; what happens is up to the runtime the server is installed
\* with: a router that awaits its handlers (express 5) passes the error to the
\* default error handler, which answers 500; otherwise the rejection is unhandled and
\* Node ends the process, or, started with --unhandled-rejections=warn, only warns and
\* the request is never answered (the slot is then given back by Release).
UnhandledRejection(s) ==
  /\ Running(s)
  /\ req[s].pc = "unhandled"
  /\ \/ req' = [req EXCEPT ![s] = Respond(@, Response(500, MsgInternal, <<>>))]
     \/ req' = [req EXCEPT ![s].pc = "exited"]
  /\ UNCHANGED <<store, blobs, nextId, hits, admitted, now, apiFlashKey>>

\* The response is out and nothing the request started is still in flight, neither
\* on its way back to the handler nor on its way to the bucket or the database: the
\* slot is free again.
Release(s) ==
  /\ Running(s)
  /\ req[s].pc \in {"done", "unhandled"}
  /\ req[s].up # "pending"
  /\ req[s].gen # "pending"
  /\ req[s].put # "sent"
  /\ req[s].ins # "sent"
  /\ req' = [req EXCEPT ![s] = Idle]
  /\ UNCHANGED <<store, blobs, nextId, hits, admitted, now, apiFlashKey>>

\* Time passes.
Tick ==
  /\ now < MaxTime
  /\ now' = now + 1
  /\ UNCHANGED <<req, store, blobs, nextId, hits, admitted, apiFlashKey>>

----------------------------------------------------------------------------
(* Specifications *)

\* The pipelines of app.mjs and of part_001b: POST /screenshot and POST /roast, every
\* kind of url, every answer of the backends, two requests at a time, from an address
\* both limiters let through unconditionally.
Next ==
  \E s \in Slots :
    \/ Receive(s, {"screenshot", "roast"}, {AllowedIp}, Urls, {NoVisitor})
    \/ HandleRoast(s)
    \/ UnhandledRejection(s)
    \/ HandleScreenshot(s)
    \/ DnsDone(s)
    \/ CaptureDone(s)
    \/ CompressDone(s)
    \/ UploadCommit(s)
    \/ UploadDone(s)
    \/ AnalyzeDone(s, Contents)
    \/ InsertCommit(s)
    \/ InsertDone(s)
    \/ Release(s)

Spec == Init /\ [][Next]_vars

\* POST /roast alone: two overlapping requests with a url that fails the validation
\* and with two that pass it, every answer of the backends.
NextRoast ==
  \E s \in Slots :
    \/ Receive(s, {"roast"}, {AllowedIp}, {UrlGarbage, UrlLoopback, UrlPublic}, {NoVisitor})
    \/ HandleRoast(s)
    \/ CaptureDone(s)
    \/ CompressDone(s)
    \/ UploadCommit(s)
    \/ UploadDone(s)
    \/ AnalyzeDone(s, Contents)
    \/ InsertCommit(s)
    \/ InsertDone(s)
    \/ Release(s)

SpecRoast == Init /\ [][NextRoast]_vars

\* The stages of both pipelines side by side: POST /screenshot of app.mjs and
\* POST /roast with a url that fails the validation and with two that pass it, the
\* generation answering a critique or text that does not parse.
NextStages ==
  \E s \in Slots :
    \/ Receive(s, {"screenshot", "roast"}, {AllowedIp}, {UrlGarbage, UrlLoopback, UrlPublic},
               {NoVisitor})
    \/ HandleRoast(s)
    \/ HandleScreenshot(s)
    \/ DnsDone(s)
    \/ CaptureDone(s)
    \/ CompressDone(s)
    \/ UploadCommit(s)
    \/ UploadDone(s)
    \/ AnalyzeDone(s, {ContentGood, ContentRefusal})
    \/ InsertCommit(s)
    \/ InsertDone(s)
    \/ Release(s)

SpecStages == Init /\ [][NextStages]_vars

\* The pipeline of part_001a: POST /screenshot with the classified capture failures,
\* from both addresses (the limiter of part_001a counts them both).
NextV2 ==
  \E s \in Slots :
    \/ Receive(s, {"screenshot_v2"}, Ips, Urls, {NoVisitor})
    \/ HandleScreenshot(s)
    \/ CaptureDone(s)
    \/ AnalyzeDone(s, Contents)
    \/ Release(s)

SpecV2 == Init /\ [][NextV2]_vars

\* The pipeline of part_000: POST /screenshot with an email, every kind of url and of
\* email, every answer of the backends.
NextMail ==
  \E s \in Slots :
    \/ ReceiveMail(s, Ips, Urls \cup {UrlLong}, Emails)
    \/ HandleMail(s)
    \/ UnhandledRejection(s)
    \/ CaptureDone(s)
    \/ AnalyzeDone(s, Contents)
    \/ MailDone(s)
    \/ Release(s)

SpecMail == Init /\ [][NextMail]_vars

\* The store and its readers: POST /roast of a valid url beside GET /roasts/:id.
NextStore ==
  \E s \in Slots :
    \/ Receive(s, {"roast"}, {AllowedIp}, {UrlPublic}, {NoVisitor, VisitorA})
    \/ ReceiveGet(s, {AllowedIp})
    \/ HandleRoast(s)
    \/ HandleGetRoast(s)
    \/ CaptureDone(s)
    \/ CompressDone(s)
    \/ UploadCommit(s)
    \/ UploadDone(s)
    \/ AnalyzeDone(s, {ContentGood, ContentRefusal})
    \/ InsertCommit(s)
    \/ InsertDone(s)
    \/ SelectRun(s)
    \/ QueryDone(s)
    \/ Release(s)

SpecStore == Init /\ [][NextStore]_vars

\* The feed: POST /roast of a valid url beside GET /roasts, with enough identifiers
\* for the store to outgrow the feed.
NextFeed ==
  \E s \in Slots :
    \/ Arrive(s, {"roast"}, {AllowedIp}, {UrlPublic}, {NoVisitor}, MaxRows)
    \/ ReceiveGetRoasts(s, {AllowedIp})
    \/ HandleRoast(s)
    \/ HandleGetRoasts(s)
    \/ CaptureDone(s)
    \/ CompressDone(s)
    \/ UploadCommit(s)
    \/ UploadDone(s)
    \/ AnalyzeDone(s, {ContentGood})
    \/ InsertCommit(s)
    \/ InsertDone(s)
    \/ SelectRun(s)
    \/ LatestDone(s)
    \/ Release(s)

SpecFeed == Init /\ [][NextFeed]_vars

\* A visitor's rows: POST /roast of a valid url, without a visitor id, with one
\* that is a UUID and with one that is not, beside GET /roasts/mine/:visitorId.
NextMine ==
  \E s \in Slots :
    \/ Receive(s, {"roast"}, {AllowedIp}, {UrlPublic}, {NoVisitor, VisitorA, NotAUuid})
    \/ ReceiveGetMine(s, {AllowedIp}, {NotAUuid, VisitorA})
    \/ HandleRoast(s)
    \/ HandleGetMine(s)
    \/ CaptureDone(s)
    \/ CompressDone(s)
    \/ UploadCommit(s)
    \/ UploadDone(s)
    \/ AnalyzeDone(s, {ContentGood})
    \/ InsertCommit(s)
    \/ InsertDone(s)
    \/ SelectRun(s)
    \/ MineDone(s)
    \/ Release(s)

SpecMine == Init /\ [][NextMine]_vars

\* The limiter under a running clock: POST /roast requests of both addresses, with
\* a url that fails the validation and with one that is not a string, two at a time.
NextLimiter ==
  \/ Tick
  \/ \E s \in Slots :
       \/ Receive(s, {"roast"}, Ips, {UrlGarbage, UrlNumber}, {NoVisitor})
       \/ HandleRoast(s)
       \/ UnhandledRejection(s)
       \/ Release(s)

SpecLimiter == Init /\ [][NextLimiter]_vars

\* Long urls: every POST route, a url of 2049 and one of 2083 characters.
NextLong ==
  \E s \in Slots :
    \/ Receive(s, LimitedEndpoints, {AllowedIp}, {UrlLong, UrlHuge}, {NoVisitor})
    \/ ReceiveMail(s, {AllowedIp}, {UrlLong, UrlHuge}, {EmailGood})
    \/ HandleRoast(s)
    \/ HandleScreenshot(s)
    \/ HandleMail(s)
    \/ CaptureDone(s)
    \/ CompressDone(s)
    \/ UploadCommit(s)
    \/ UploadDone(s)
    \/ AnalyzeDone(s, {ContentGood})
    \/ MailDone(s)
    \/ InsertCommit(s)
    \/ InsertDone(s)
    \/ Release(s)

SpecLong == Init /\ [][NextLong]_vars

\* The quota: the routes of app.mjs and of part_001b, POST and GET, from an address
\* on the allow-list and from one that is not.  POST /screenshot comes with a url that
\* fails the validation and with one that passes it and is refused by the gate,
\* POST /roast with one that fails the validation.
NextQuota ==
  \E s \in Slots :
    \/ Receive(s, {"screenshot"}, Ips, {UrlGarbage, UrlPublic}, {NoVisitor})
    \/ Receive(s, {"roast"}, Ips, {UrlGarbage}, {NoVisitor})
    \/ ReceiveGetRoot(s, Ips)
    \/ ReceiveGet(s, Ips)
    \/ ReceiveGetRoasts(s, Ips)
    \/ ReceiveGetMine(s, Ips, {VisitorA})
    \/ HandleRoast(s)
    \/ HandleScreenshot(s)
    \/ HandleGetRoot(s)
    \/ HandleGetRoast(s)
    \/ HandleGetRoasts(s)
    \/ HandleGetMine(s)
    \/ DnsDone(s)
    \/ SelectRun(s)
    \/ QueryDone(s)
    \/ LatestDone(s)
    \/ MineDone(s)
    \/ Release(s)

SpecQuota == Init /\ [][NextQuota]_vars


----------------------------------------------------------------------------
(* Properties *)

StoredIds == {store[i].id : i \in DOMAIN store}

\* The handler of the request in slot s has run its validation.
Validated(s) == req[s].pc \notin {"idle", "handler"}

\* C1: in POST /roast, when the upload succeeded and the generation failed, or the
\* generation succeeded and the upload failed, the request has sent no insert and no
\* row of the store carries its identifier, in whichever order the two returned.
C1_NoRecordOnPartialFailure ==
  \A s \in Slots :
    (/\ req[s].ep = "roast"
     /\ \/ req[s].up = "ok" /\ req[s].gen = "fail"
        \/ req[s].up \in {"error", "rejected"} /\ req[s].gen = "ok")
    => /\ "insert" \notin Set(req[s].calls)
       /\ req[s].id \notin StoredIds
       /\ req[s].resp.status # 200

C1_Witness ==
  \E s \in Slots :
    /\ req[s].ep = "roast" /\ req[s].pc = "done"
    /\ req[s].up = "ok" /\ req[s].gen = "fail"
    /\ uploadPath(req[s].id) \in blobs

\* C2: on POST /screenshot of app.mjs, a request whose hostname resolved to a
\* loopback, private, link-local or unspecified address is answered 400 with the
\* "not publicly accessible" message and never reaches the capture.
C2_PrivateNeverCaptured ==
  \A s \in Slots :
    (req[s].ep = "screenshot" /\ req[s].lookup \in {"loopback", "private", "linkLocal", "unspecified"})
    => /\ req[s].pc = "done"
       /\ req[s].resp = Response(400, MsgNotPublic, <<>>)
       /\ "capture" \notin Set(req[s].calls)

C2_Witness ==
  \E s \in Slots :
    /\ req[s].ep = "screenshot" /\ req[s].lookup = "private"
    /\ req[s].resp = Response(400, MsgNotPublic, <<>>)

\* The url is missing, empty, not a string, or not an http/https URL.
InvalidUrl(u) ==
  \/ u.type # "string"
  \/ u.len = 0
  \/ ~(u.wf /\ u.scheme \in {"http", "https"})

\* C3: a request whose url is missing, empty, not a string or not an http/https URL
\* is answered 400 and makes no network call.
C3_InvalidUrlRejected ==
  \A s \in Slots :
    (req[s].ep \in PostEndpoints /\ InvalidUrl(req[s].url) /\ Validated(s))
    => /\ req[s].pc = "done"
       /\ req[s].resp.status = 400
       /\ Set(req[s].calls) \cap NetworkCalls = {}

\* The CritiqueResult schema: every required field, no other field, theVerdict in
\* 1..100, mayhemMeter in 1..10, at least four corrective actions.
CritiqueResultValid(c) ==
  /\ ~c.isNull
  /\ c.json
  /\ c.props = RequiredFields
  /\ c.theVerdict \in 1..100
  /\ c.mayhemMeter \in 1..10
  /\ c.correctiveActions >= 4

\* C4: every row of the store holds a critique that satisfies the CritiqueResult
\* schema, whatever the generation service answered.
C4_StoredCritiqueValid ==
  \A i \in DOMAIN store : CritiqueResultValid(store[i].roast_json)

\* C6: in POST /roast the response is never sent while the upload or the generation
\* of the request is still in flight.
C6_JoinAwaitsBoth ==
  \A s \in Slots :
    (req[s].ep = "roast" /\ req[s].pc = "done")
    => (req[s].up # "pending" /\ req[s].gen # "pending")

\* The capture of the request timed out: capture-website reports a navigation
\* timeout; the capture service of POST /roast answers with a status that is not ok.
CaptureTimedOut(s) ==
  \/ req[s].failed = "Navigation timeout"
  \/ req[s].ep = "roast" /\ req[s].failed = "notOk"

\* C7: a request that passed the URL gate and whose capture timed out is answered
\* 400 with the fixed Timeout message, and writes no row.
C7_CaptureTimeoutIs400 ==
  \A s \in Slots :
    (req[s].ep \in PostEndpoints /\ CaptureTimedOut(s))
    => /\ req[s].resp = Response(400, MsgTimeout, <<>>)
       /\ req[s].id \notin StoredIds

\* C8: POST /roast of http://127.0.0.1 is answered 400 with the "not publicly
\* accessible" message and starts neither the capture nor any later stage.
C8_LoopbackRoastRejected ==
  \A s \in Slots :
    (req[s].ep = "roast" /\ req[s].url = UrlLoopback /\ Validated(s))
    => /\ req[s].resp = Response(400, MsgNotPublic, <<>>)
       /\ Set(req[s].calls) \cap {"capture", "upload", "generate", "insert"} = {}

\* The one message a route answers its internal failures with.
GenericMessage(ep) == IF ep = "roast" THEN MsgUnexpected ELSE MsgUnexpectedLater

\* C9: a failure of the generation (the call or the parse of its answer), of the
\* upload, of the compression or of the insert is answered 500 with the one generic
\* message of the route, whatever the cause; and no response carries text that comes
\* from a provider or backend error.
C9_GenericFailureMessage ==
  \A s \in Slots :
    /\ req[s].resp.error \notin ProviderTexts
    /\ req[s].failed \in {"generate", "parse", "upload", "compress", "insert"}
       => req[s].resp = Response(500, GenericMessage(req[s].ep), <<>>)

\* The start of the limiter window that holds the i-th admission of a log of
\* admission times: the first admission opens a window of windowTicks ticks, and the
\* first admission after a window has elapsed opens the next one.
RECURSIVE WindowStart(_, _)
WindowStart(log, i) ==
  IF i = 1 THEN log[1]
  ELSE LET w == WindowStart(log, i - 1)
       IN  IF log[i] >= w + windowTicks THEN log[i] ELSE w

\* The admissions of a log that fall in the window its last admission falls in.
InLastWindow(log) ==
  {i \in DOMAIN log : WindowStart(log, i) = WindowStart(log, Len(log))}

\* A window of the address is open at time t.
WindowOpen(log, t) == log # <<>> /\ t < WindowStart(log, Len(log)) + windowTicks

\* The step is the arrival of a request of address ip in slot s.
Arrives(s, ip) == req[s].pc = "idle" /\ req'[s].pc # "idle" /\ req'[s].ip = ip

\* The step is the arrival, at a route of the program, of a POST request of address
\* ip in slot s.
ArrivesAt(s, prog, ip) ==
  Arrives(s, ip) /\ req'[s].ep \in PostEndpoints /\ programOf(req'[s].ep) = prog

\* No window of an address that is not on the allow-list holds more than 3 admissions.
C5_AtMostThreePerWindow ==
  \A prog \in LimitedPrograms : \A ip \in Ips \ whitelistOf(prog) :
    \A i \in DOMAIN admitted[prog][ip] :
      Cardinality({j \in DOMAIN admitted[prog][ip] :
                     WindowStart(admitted[prog][ip], j) = WindowStart(admitted[prog][ip], i)}) <= 3

\* A request that arrives in a window with 3 admissions is rejected; a request that
\* arrives when no window is open is admitted.
C5_FourthRejectedThenAdmitted ==
  \A prog \in LimitedPrograms : \A ip \in Ips \ whitelistOf(prog) : \A s \in Slots :
    ArrivesAt(s, prog, ip) =>
      LET log == admitted[prog][ip]
      IN  /\ (WindowOpen(log, now) /\ Cardinality(InLastWindow(log)) = 3)
               => /\ req'[s].resp = Response(429, RateLimitMessage, <<>>)
                  /\ admitted'[prog][ip] = log
          /\ ~WindowOpen(log, now)
               => /\ req'[s].pc = "handler"
                  /\ admitted'[prog][ip] = Append(log, now)

\* C5: for every limiter and an address that is not on its allow-list, a request that arrives in a
\* window in which 3 requests were admitted is rejected with the 429 message; a
\* request that arrives when no window is open (the 15 minutes have elapsed) is
\* admitted; and no window ever holds more than 3 admissions, however the requests of
\* the address interleave.
C5_RateLimit == []C5_AtMostThreePerWindow /\ [][C5_FourthRejectedThenAdmitted]_vars

\* A rejected fourth request is still held in a slot when, a window later, the
\* address is admitted for the fourth time.
C5_Witness ==
  LET log == admitted["part_001b"][ClientIp]
  IN  /\ Len(log) = 4
      /\ log[4] >= log[1] + windowTicks
      /\ \E s \in Slots :
           req[s].ep = "roast" /\ req[s].ip = ClientIp /\ req[s].resp.status = 429

\* The step is the validation of the GET /roasts/:id request in slot s.
GetValidates(s) == req[s].ep = "getRoast" /\ req[s].pc = "handler" /\ req'[s].pc # "handler"

\* The step is the database running the select of the GET /roasts/:id request in
\* slot s.
GetRuns(s) == req[s].ep = "getRoast" /\ req[s].pc = "query" /\ req'[s].pc = "queried"

\* The step is the return of the query of the GET /roasts/:id request in slot s
\* with the answer of the database.
GetAnswers(s) ==
  /\ req[s].ep = "getRoast" /\ req[s].pc = "queried"
  /\ req'[s].pc = "done" /\ req'[s].failed \notin {"query", "rejected"}

\* What the three steps of GET /roasts/:id do: the validation, the select on the
\* store as it is when the database runs it, and the answer made of what the select
\* found.
C10_Step ==
  \A s \in Slots :
    /\ GetValidates(s) =>
         IF req[s].param = NotAUuid
           THEN /\ req'[s].resp = Response(400, MsgBadId, <<>>)
                /\ "query" \notin Set(req'[s].calls)
           ELSE req'[s].pc = "query"
    /\ GetRuns(s) =>
         IF req[s].param \in StoredIds
           THEN \E i \in DOMAIN store :
                  /\ store[i].id = req[s].param
                  /\ req'[s].ret = Result(<<store[i]>>, FALSE, FALSE)
           ELSE req'[s].ret = Result(<<>>, TRUE, FALSE)
    /\ GetAnswers(s) =>
         IF req[s].ret.error
           THEN req'[s].resp = Response(404, MsgNotFound, <<>>)
           ELSE req'[s].resp = Response(200, "", req[s].ret.data)

\* C10: GET /roasts/:id answers 400 without querying the store when the id is not a
\* well-formed identifier; for a well-formed id it queries the store and answers 404
\* when no row has that id and 200 with the row when one has, the store being read at
\* the moment the database runs the query.
C10_GetRoastById == [][C10_Step]_vars

C10_Witness ==
  \E s, t \in Slots :
    /\ req[s].ep = "getRoast" /\ req[s].resp.status = 200
    /\ req[s].resp.data[1].id = req[s].param
    /\ req[t].ep = "getRoast" /\ req[t].resp.status = 404 /\ req[t].param # NotAUuid
    /\ req[t].failed = ""

\* The rows of a response are in descending order of created_at.
NewestFirst(rows) ==
  \A i, j \in DOMAIN rows : i < j => rows[i].created_at > rows[j].created_at

\* The rows of the store that carry the visitor id.
RowsOf(visitorId) == {row \in Set(store) : row.visitor_id = visitorId}

\* The step is the database running the select of GET /roasts/mine/:visitorId in
\* slot s.
MineRuns(s) == req[s].ep = "getMine" /\ req[s].pc = "queryMine" /\ req'[s].pc = "queriedMine"

\* The step is the answer of GET /roasts/mine/:visitorId in slot s, made of the
\* answer of the database.
MineAnswers(s) ==
  /\ req[s].ep = "getMine" /\ req[s].pc = "queriedMine"
  /\ req'[s].pc = "done" /\ req'[s].failed \notin {"query", "rejected"}

\* The select finds exactly the rows of the visitor, newest first, in the store as
\* it is when the database runs it; the answer is 404 when it found none and 200
\* with the rows otherwise.
C11_Step ==
  \A s \in Slots :
    /\ MineRuns(s) =>
         /\ Set(req'[s].ret.data) = RowsOf(req[s].param)
         /\ Len(req'[s].ret.data) = Cardinality(RowsOf(req[s].param))
         /\ NewestFirst(req'[s].ret.data)
    /\ MineAnswers(s) =>
         IF req[s].ret.data = <<>>
           THEN req'[s].resp.status = 404
           ELSE req'[s].resp = Response(200, "", req[s].ret.data)

\* C11: GET /roasts/mine/:visitorId with a well-formed visitor id answers 200 with
\* exactly the rows of that visitor, newest first, and answers 404 when the store
\* holds no row of that visitor.
C11_VisitorFeed == [][C11_Step]_vars

\* The step is the database running the select of GET /roasts in slot s.
LatestRuns(s) ==
  req[s].ep = "getRoasts" /\ req[s].pc = "queryLatest" /\ req'[s].pc = "queriedLatest"

\* The step is the answer of GET /roasts in slot s, made of the answer of the
\* database.
LatestAnswers(s) ==
  /\ req[s].ep = "getRoasts" /\ req[s].pc = "queriedLatest"
  /\ req'[s].pc = "done" /\ req'[s].failed # "query"

\* The select finds the min(3, n) newest rows of the store as it is when the
\* database runs it, newest first, and the answer is 200 with these rows.
C12_Step ==
  \A s \in Slots :
    /\ LatestRuns(s) =>
         LET data == req'[s].ret.data
         IN  /\ ~req'[s].ret.error
             /\ Len(data) = IF Len(store) < 3 THEN Len(store) ELSE 3
             /\ NewestFirst(data)
             /\ Set(data) \subseteq Set(store)
             /\ \A row \in Set(store) \ Set(data) :
                  \A shown \in Set(data) : row.created_at < shown.created_at
    /\ LatestAnswers(s) => req'[s].resp = Response(200, "", req[s].ret.data)

\* C12: GET /roasts answers 200 with min(3, n) rows when the store holds n rows: the
\* rows with the latest created_at, in descending order of created_at, whatever the
\* store holds.
C12_LatestThree == [][C12_Step]_vars

\* GET /roasts answered three rows out of four, the newest first.
C12_Witness ==
  \E s \in Slots :
    /\ req[s].ep = "getRoasts" /\ req[s].resp.status = 200
    /\ Len(store) = 4 /\ Len(req[s].resp.data) = 3
    /\ req[s].resp.data[1].created_at = 4

\* The POST /roast request in slot s has been answered.
RoastCompleted(s) == req[s].ep = "roast" /\ req[s].pc = "done"

\* The upload of the request succeeded and so did its generation: analyzeImage
\* returned a critique that parses and satisfies the CritiqueResult schema.
JointSuccess(s) ==
  req[s].up = "ok" /\ req[s].gen = "ok" /\ CritiqueResultValid(req[s].content)

\* C13: at every point where a POST /roast request has been answered, a row with its
\* identifier is in the store if and only if both its upload and its generation
\* succeeded.
C13_RecordIffJointSuccess ==
  \A s \in Slots :
    RoastCompleted(s) => (req[s].id \in StoredIds <=> JointSuccess(s))

\* In the list of calls, every call of stage a comes before every call of stage b.
Precedes(calls, a, b) ==
  \A i, j \in DOMAIN calls : (calls[i] = a /\ calls[j] = b) => i < j

\* C14: in POST /roast the identifier of the row is drawn before any side effect of
\* the request: a request that has called the capture, the upload or the generation
\* has drawn its identifier before that call.
C14_IdentifierFirst ==
  \A s \in Slots :
    req[s].ep = "roast" =>
      \A stage \in {"capture", "upload", "generate"} :
        stage \in Set(req[s].calls) =>
          /\ "uuid" \in Set(req[s].calls)
          /\ Precedes(req[s].calls, "uuid", stage)

\* The POST /roast request in slot s failed after its upload had succeeded: the
\* generation failed, its answer did not parse, or the awaited insert returned an
\* error.
FailedAfterUpload(s) ==
  /\ req[s].ep = "roast" /\ req[s].up = "ok"
  /\ req[s].failed \in {"generate", "parse", "insert"}

\* The asset of the request is an orphan: stored under the path derived from the
\* identifier, with no row that carries the identifier or the asset's address.
Orphan(s) ==
  /\ uploadPath(req[s].id) \in blobs
  /\ \A i \in DOMAIN store :
       /\ store[i].id # req[s].id
       /\ store[i].screenshot_url # getPublicUrl(uploadPath(req[s].id))

C15_OrphanStays == \A s \in Slots : FailedAfterUpload(s) => Orphan(s)

\* No step removes an object from the bucket or stores an object under a path
\* that is already taken.
C15_NoDeleteNoOverwrite ==
  /\ blobs \subseteq blobs'
  /\ \A s \in Slots :
       (req[s].put = "sent" /\ req'[s].put = "stored")
         => /\ uploadPath(req[s].id) \notin blobs
            /\ blobs' = blobs \cup {uploadPath(req[s].id)}

\* C15: when a POST /roast request fails after its upload succeeded (the generation
\* failed, its answer did not parse, or the insert failed), nothing is deleted from
\* or overwritten in the bucket: the asset stays under the path derived from the
\* identifier and no row refers to it.
C15_OrphanAsset == []C15_OrphanStays /\ [][C15_NoDeleteNoOverwrite]_vars

\* How many times the list of calls holds the stage.
Count(calls, stage) == Len(SelectSeq(calls, LAMBDA c : c = stage))

\* A request that has been answered makes no further call.
AnsweredCallsNoMore ==
  \A s \in Slots :
    (req[s].pc = "done" /\ req'[s].pc = "done") => req'[s].calls = req[s].calls

C16_AtMostOnce ==
  \A s \in Slots :
    /\ \A stage \in {"dns", "capture", "upload", "generate", "insert"} :
         Count(req[s].calls, stage) <= 1
    /\ req[s].failed = "insert"
         => /\ req[s].pc = "done"
            /\ req[s].resp = Response(500, MsgUnexpected, <<>>)
            /\ Count(req[s].calls, "insert") = 1

\* C16: no stage is retried: a request calls the DNS lookup, the capture, the upload,
\* the generation and the insert at most once each; a failed insert ends the request
\* with the 500 answer after that one insert; an answered request calls nothing more.
C16_NoRetry == []C16_AtMostOnce /\ [][AnsweredCallsNoMore]_vars

\* A request was answered after a failed insert while a request of the route with
\* the URL gate was answered after a failed lookup.
C16_Witness ==
  \E s, t \in Slots :
    /\ req[s].ep = "roast" /\ req[s].pc = "done" /\ req[s].failed = "insert"
    /\ req[s].calls = <<"capture", "compress", "uuid", "upload", "generate", "insert">>
    /\ req[t].ep = "screenshot" /\ req[t].pc = "done" /\ req[t].calls = <<"dns">>

\* The process of every program is running.
AllRunning == \A prog \in Programs : Alive(prog)

\* A slot is given back only after its request was answered.
ReleasedOnlyAnswered ==
  \A s \in Slots :
    (req[s].pc # "idle" /\ req'[s].pc = "idle") => req[s].resp.status # 0

\* C17: no failure is fatal to the process: whatever the body of a request (a url
\* that is not a string included) and whichever stage fails, the process keeps
\* running and every request is answered before it is let go.
C17_NoFailureFatal == []AllRunning /\ [][ReleasedOnlyAnswered]_vars

\* C18: the URL gate of POST /screenshot (app.mjs) fails closed: a request whose
\* lookup failed is answered 400 with the "not publicly accessible" message and
\* never calls the capture; a request calls the capture only after its lookup
\* returned an address classified as public (unicast).
C18_GateFailsClosed ==
  \A s \in Slots :
    req[s].ep = "screenshot" =>
      /\ req[s].lookup = "fail"
           => /\ req[s].pc = "done"
              /\ req[s].resp = Response(400, MsgNotPublic, <<>>)
              /\ "capture" \notin Set(req[s].calls)
      /\ "capture" \in Set(req[s].calls)
           => /\ req[s].lookup = "unicast"
              /\ "dns" \in Set(req[s].calls)
              /\ Precedes(req[s].calls, "dns", "capture")

\* A lookup failed and the request was answered 400 with nothing but the lookup
\* called.
C18_Witness ==
  \E s \in Slots :
    /\ req[s].ep = "screenshot" /\ req[s].lookup = "fail"
    /\ req[s].calls = <<"dns">> /\ req[s].resp.status = 400

\* C19: on every POST route that starts the pipeline, a url of more than 2048
\* characters is answered 400 and makes no network call, also when it is a
\* well-formed http or https URL.
C19_LongUrlRejected ==
  \A s \in Slots :
    (req[s].ep \in PostEndpoints /\ req[s].url.len > 2048 /\ Validated(s))
    => /\ req[s].pc = "done"
       /\ req[s].resp.status = 400
       /\ Set(req[s].calls) \cap NetworkCalls = {}

\* The texts a capture backend fails with.
BackendTexts == CaptureOutcomes \ {"ok"}

\* C20: in POST /screenshot of part_001 every failure of the capture backend is
\* answered 400 with exactly one of three fixed messages: the one for an
\* unresolvable name when the backend reports a name-resolution error, the one for a
\* timeout when it reports a navigation timeout, the one for a blocked capture for
\* everything else; and the message holds none of the backend's text.
C20_CaptureFailureClassified ==
  \A s \in Slots :
    (req[s].ep = "screenshot_v2" /\ req[s].failed \in BackendTexts)
    => /\ req[s].pc = "done"
       /\ req[s].resp.status = 400
       /\ req[s].resp.data = <<>>
       /\ req[s].resp.error \in {MsgUnresolvable, MsgTimeout, MsgBlocked}
       /\ req[s].resp.error \notin BackendTexts
       /\ req[s].failed = "ERR_NAME_NOT_RESOLVED" => req[s].resp.error = MsgUnresolvable
       /\ req[s].failed = "Navigation timeout" => req[s].resp.error = MsgTimeout
       /\ req[s].failed = "other" => req[s].resp.error = MsgBlocked
       /\ req[s].failed = TxtBothPhrases => req[s].resp.error \in {MsgUnresolvable, MsgTimeout}

\* One capture failed on the name and another with an unclassified error.
C20_Witness ==
  \E s, t \in Slots :
    /\ req[s].ep = "screenshot_v2" /\ req[s].failed = "ERR_NAME_NOT_RESOLVED"
    /\ req[s].resp.error = MsgUnresolvable
    /\ req[t].ep = "screenshot_v2" /\ req[t].failed = "other"
    /\ req[t].resp.error = MsgBlocked

\* The window the limiter of the program holds for the address is open at time t
\* and holds 3 counted requests or more.
QuotaUsed(prog, ip, t) == hits[prog][ip].totalHits >= 3 /\ t < hits[prog][ip].resetTime

\* A request answered 429 is answered with the fixed message and has run nothing
\* but the limiter.
C21_RejectedRanNothing ==
  \A s \in Slots :
    req[s].resp.status = 429 =>
      /\ req[s].pc = "done"
      /\ req[s].resp = Response(429, RateLimitMessage, <<>>)
      /\ req[s].calls = <<"limiter">>
      /\ req[s].lookup = "" /\ req[s].id = "" /\ req[s].failed = ""
      /\ req[s].up = "none" /\ req[s].gen = "none"

\* A POST request that arrives when the quota of its address is used is answered
\* 429 in that very step, and a request answered 429 changes no more until its slot
\* is given back.
C21_Step ==
  \A s \in Slots :
    /\ \A prog \in LimitedPrograms : \A ip \in Ips \ whitelistOf(prog) :
         (ArrivesAt(s, prog, ip) /\ QuotaUsed(prog, ip, now))
           => req'[s].resp.status = 429
    /\ (req[s].resp.status = 429 /\ req'[s] # req[s]) => req'[s] = Idle

\* C21: a request the rate limiter rejects runs no later stage: no validation of the
\* url, no lookup, capture, upload, generation or insert is done for it, and it is
\* answered with the fixed rejection message.
C21_RejectedRunsNothing == []C21_RejectedRanNothing /\ [][C21_Step]_vars

\* A POST /roast with a url that would fail the validation was rejected by the
\* limiter, not by the validation.
C21_Witness ==
  \E s \in Slots :
    /\ req[s].ep = "roast" /\ req[s].url = UrlGarbage
    /\ req[s].resp = Response(429, RateLimitMessage, <<>>)
    /\ Len(admitted["part_001b"][req[s].ip]) = 3

\* The counters never hold an address of the allow-list, and no request of such an
\* address is answered 429.
C22_AllowListUncounted ==
  /\ \A prog \in LimitedPrograms : \A ip \in whitelistOf(prog) :
       hits[prog][ip] = NoHits /\ admitted[prog][ip] = <<>>
  /\ \A s \in Slots :
       (req[s].ep # "" /\ req[s].ip \in whitelistOf(programOf(req[s].ep)))
         => req[s].resp.status # 429

\* The arrival of a POST request of an address of the allow-list: the request is
\* handed to its handler and no counter changes.
C22_Step ==
  \A s \in Slots : \A prog \in LimitedPrograms : \A ip \in whitelistOf(prog) :
    ArrivesAt(s, prog, ip)
      => /\ req'[s].pc = "handler"
         /\ req'[s].calls = <<>>
         /\ hits' = hits

\* C22: an address on the allow-list of a program is never rejected by the rate limiter, however
\* many requests it sends, and its requests change the counter of no address.
C22_AllowListBypass == []C22_AllowListUncounted /\ [][C22_Step]_vars

\* Both slots serve POST requests of the allow-listed address while the other
\* address has used its quota up and has been rejected.
C22_Witness ==
  /\ \A s \in Slots :
       /\ req[s].ip = AllowedIp /\ req[s].ep \in PostEndpoints
       /\ req[s].pc \notin {"idle", "handler"}
  /\ \E prog \in LimitedPrograms :
       /\ AllowedIp \in whitelistOf(prog)
       /\ hits[prog][ClientIp].totalHits > 3
       /\ hits[prog][AllowedIp].totalHits = 0

\* Fifteen minutes, in ticks of the clock.
SpanTicks == (15 * 60 * 1000) \div TickMs

\* The admissions of the log that fall in the span of fifteen minutes that begins
\* at time t, both ends included.
AdmittedInSpan(log, t) == {i \in DOMAIN log : t <= log[i] /\ log[i] <= t + SpanTicks}

\* C23: the limiter counts in fixed windows: for an address that is not on its
\* allow-list, no span of 15 minutes holds more than 6 admissions (two windows of
\* 3), the spans that straddle the boundary of two windows included.
C23_AtMostSixPerSpan ==
  \A prog \in LimitedPrograms : \A ip \in Ips \ whitelistOf(prog) :
    \A i \in DOMAIN admitted[prog][ip] :
      Cardinality(AdmittedInSpan(admitted[prog][ip], admitted[prog][ip][i])) <= 6

\* More than 3 admissions in less than 15 minutes: five requests of the address
\* were admitted within ten minutes, in two windows, one before and one after the
\* boundary.
C23_Witness ==
  LET log == admitted["part_001b"][ClientIp]
  IN  \E i, j \in DOMAIN log :
        /\ j - i + 1 = 5
        /\ log[j] - log[i] < SpanTicks
        /\ WindowStart(log, i) # WindowStart(log, j)

\* The row carries what the request holds: its identifier, its url, the critique its
\* own generation returned, the address of the asset under the path of its
\* identifier, its visitor id.
RowOf(row, r) ==
  /\ row.id = r.id
  /\ row.url = r.url.text
  /\ row.roast_json = r.content
  /\ row.screenshot_url = getPublicUrl(uploadPath(r.id))
  /\ row.visitor_id = visitorOrNull(r.visitor)

\* Every row of the store points at the asset stored under the path of its own
\* identifier, no two rows share an identifier, and a row agrees with the request
\* that drew its identifier, whose upload and generation both succeeded.
C24_RowsConsistent ==
  \A i \in DOMAIN store :
    /\ store[i].screenshot_url = getPublicUrl(uploadPath(store[i].id))
    /\ uploadPath(store[i].id) \in blobs
    /\ \A j \in DOMAIN store : store[j].id = store[i].id => j = i
    /\ \A s \in Slots :
         req[s].id = store[i].id
           => RowOf(store[i], req[s]) /\ req[s].up = "ok" /\ req[s].gen = "ok"

\* A row enters the store only as the row of the request whose insert the database
\* writes, whether the handler of that request still awaits the insert or has
\* answered already.
C24_Step ==
  Len(store') # Len(store) =>
    /\ Len(store') = Len(store) + 1
    /\ SubSeq(store', 1, Len(store)) = store
    /\ \E s \in Slots :
         /\ req[s].ins = "sent" /\ req'[s].ins = "stored"
         /\ req[s].up = "ok" /\ req[s].gen = "ok"
         /\ RowOf(store'[Len(store')], req[s])

\* C24: however concurrent POST /roast requests interleave, every stored row is
\* consistent: its url, its critique and its image address come from the one request
\* that created it, and the image address is that of an asset uploaded under the
\* path derived from the row's own identifier.
C24_RecordConsistent == []C24_RowsConsistent /\ [][C24_Step]_vars

\* Two requests overlapped: the one that drew the second identifier was inserted
\* first, and the two rows differ in url and in critique.
C24_Witness ==
  /\ Len(store) = 2
  /\ store[1].id = Uuid(2) /\ store[2].id = Uuid(1)
  /\ store[1].url # store[2].url
  /\ store[1].roast_json # store[2].roast_json

\* The rows POST /roast has answered 200 with and that are still held in a slot.
Returned == {req[s].resp.data[1] : s \in {t \in Slots : req[t].ep = "roast" /\ req[t].resp.status = 200}}

\* Every row POST /roast answered with is in the store as it was returned, and a
\* GET /roasts/:id answered 200 for the id of such a row carries the identical row.
C25_ReturnedIsStored ==
  /\ Returned \subseteq Set(store)
  /\ \A s \in Slots :
       (req[s].ep = "getRoast" /\ req[s].resp.status = 200)
         => /\ Len(req[s].resp.data) = 1
            /\ req[s].resp.data[1] \in Set(store)
            /\ \A row \in Returned :
                 row.id = req[s].param => req[s].resp.data = <<row>>

\* No step changes or removes a row: the store of before is the beginning of the
\* store of after.  A select of GET /roasts/:id that the database runs for the id of
\* a stored row (every row POST /roast has answered with is one) finds that row, and
\* the answer made of a row the select found is 200 with that row, which is still in
\* the store.
C25_Step ==
  /\ Len(store) <= Len(store')
  /\ SubSeq(store', 1, Len(store)) = store
  /\ \A s \in Slots :
       /\ GetRuns(s) =>
            \A row \in Set(store) :
              row.id = req[s].param => req'[s].ret = Result(<<row>>, FALSE, FALSE)
       /\ (GetAnswers(s) /\ ~req[s].ret.error)
            => /\ req'[s].resp = Response(200, "", req[s].ret.data)
               /\ req[s].ret.data[1] \in Set(store')

\* C25: once POST /roast has answered with a row of id X, every later GET /roasts/X
\* is answered 200 with the identical row, whatever requests came in between: no
\* step updates or deletes a row, the store only grows.
C25_RecordImmutable == []C25_ReturnedIsStored /\ [][C25_Step]_vars

\* GET /roasts/X is answered with the first row after a second row was stored, while
\* the slot of the POST /roast that created the first row serves something else.
C25_Witness ==
  \E s \in Slots :
    /\ req[s].ep = "getRoast" /\ req[s].resp.status = 200
    /\ Len(store) = 2
    /\ req[s].resp.data = <<store[1]>>
    /\ \A t \in Slots : req[t].id # store[1].id

\* The rows of the store that carry the identifier of the request of slot s.
RowsOfRequest(s) == SelectSeq(store, LAMBDA row : row.id = req[s].id)

\* C26: once a POST /roast request is answered, it is answered 200 if and only if
\* exactly one row of the store carries its identifier, the body of the 200 is that
\* row, an answer other than 200 goes with no row of the request in the store, and
\* no request has more than one row.
C26_OkIffOneInsert ==
  \A s \in Slots :
    /\ req[s].ep = "roast" => Len(RowsOfRequest(s)) <= 1
    /\ RoastCompleted(s) =>
         /\ req[s].resp.status = 200 <=> Len(RowsOfRequest(s)) = 1
         /\ req[s].resp.status = 200 => req[s].resp.data = RowsOfRequest(s)

\* The visitor ids of the rows of the store.
StoredVisitors == {row.visitor_id : row \in Set(store)} \ {"null"}

\* No row holds a visitor id that GET /roasts/mine/:visitorId refuses as malformed.
C27_StoredWellFormed ==
  \A v \in StoredVisitors :
    getMineValidate([Idle EXCEPT !.ep = "getMine", !.param = v]).resp.status # 400

\* GET /roasts/mine/:visitorId with the visitor id of a stored row is not refused,
\* the select the database runs finds that visitor's rows, and the answer made of
\* them is 200 with these rows.
C27_Step ==
  \A s \in Slots :
    (req[s].ep = "getMine" /\ req[s].param \in StoredVisitors) =>
      /\ (req[s].pc = "handler" /\ req'[s].pc # "handler") => req'[s].pc = "queryMine"
      /\ MineRuns(s) => Set(req'[s].ret.data) = RowsOf(req[s].param)
      /\ (MineAnswers(s) /\ req[s].ret.data # <<>>)
           => req'[s].resp = Response(200, "", req[s].ret.data)

\* C27: every row stored with a visitor id can be retrieved through
\* GET /roasts/mine/:visitorId with that same visitor id: POST /roast never stores a
\* visitor id that the GET route refuses as malformed.
C27_StoredIsRetrievable == []C27_StoredWellFormed /\ [][C27_Step]_vars

\* A POST request at a route with the limiter in front, of an address off the
\* allow-list, went through the limiter before anything else was done for it,
\* whatever its answer; a GET request went through no limiter and is not answered
\* 429.
C28_LimiterFirst ==
  \A s \in Slots :
    /\ (req[s].ep \in LimitedEndpoints /\ req[s].ip \notin whitelistOf(programOf(req[s].ep)))
         => (Len(req[s].calls) >= 1 /\ req[s].calls[1] = "limiter"
             /\ hits[programOf(req[s].ep)][req[s].ip].totalHits >= 1)
    /\ req[s].ep \in GetEndpoints
         => (req[s].resp.status # 429 /\ Count(req[s].calls, "limiter") = 0)

\* The arrival of a POST request of an address off the allow-list, at a route with
\* the limiter in front, adds one to the count of the open window the program holds
\* for that address (or opens a window with a count of one) and touches no other
\* count; no other step changes a count: not the arrival of a
\* GET request, and not the step in which the validation, the gate or a later stage
\* answers a request 400 or 500.
C28_Step ==
  /\ \A s \in Slots : \A prog \in LimitedPrograms : \A ip \in Ips \ whitelistOf(prog) :
       ArrivesAt(s, prog, ip)
         => /\ hits'[prog][ip].totalHits =
                 IF hits[prog][ip].totalHits > 0 /\ now < hits[prog][ip].resetTime
                   THEN hits[prog][ip].totalHits + 1 ELSE 1
            /\ \A p \in LimitedPrograms, other \in Ips :
                 <<p, other>> # <<prog, ip>> => hits'[p][other] = hits[p][other]
  /\ \A s \in Slots : \A ip \in Ips :
       (Arrives(s, ip) /\ req'[s].ep \in GetEndpoints)
         => (hits' = hits /\ admitted' = admitted /\ req'[s].pc = "handler")
  /\ hits' # hits =>
       \E s \in Slots, prog \in LimitedPrograms :
         \E ip \in Ips \ whitelistOf(prog) : ArrivesAt(s, prog, ip)

\* C28: the limiter runs before the validation and the gate, so every POST request
\* of an address off the allow-list uses one unit of the quota of its address at the
\* program it is sent to, also
\* when it is then refused by the validation or by the gate or fails in a later
\* stage; the GET routes use no quota and are never rejected by the limiter.
C28_QuotaBeforeGate == []C28_LimiterFirst /\ [][C28_Step]_vars

\* The address has used its three units, one of them on a request that the gate
\* refused, and a GET request of the same address is answered 200.
C28_Witness ==
  \E s, t \in Slots :
    /\ req[s].ep = "screenshot" /\ req[s].ip = ClientIp
    /\ req[s].resp = Response(400, MsgNotPublic, <<>>)
    /\ hits["app"][ClientIp].totalHits = 3
    /\ req[t].ep \in GetEndpoints /\ req[t].ip = ClientIp /\ req[t].resp.status = 200

====
